---- MODULE Spec2Model ----
(***************************************************************************)
(* Model of the benchmark reporting scripts of assignment1:                *)
(*   a/generate_report.py   (HTML report with Chart.js series)             *)
(*   a/plot_results.py      (PNG plots from results.csv)                   *)
(*   b/plot_best_time.py    (best_times_summary.csv)                       *)
(*   d/plot_results.py      (matmul plots and comparison_report.txt)       *)
(* Each behaviour runs one script: it reads its CSV rows one by one and    *)
(* then executes the script's blocks in program order.                     *)
(*                                                                         *)
(* Elapsed times are floats in the source; here they are integers counting *)
(* a fixed time unit, which keeps min, < and == exact.  Python's None is   *)
(* the empty tuple and a present number v is the one-element tuple <<v>>.  *)
(***************************************************************************)
EXTENDS Integers, Sequences, FiniteSets, TLC

\* ------------------------------------------------------------- bounds
\* most rows read from results.csv (assignment1/a)
MaxRows == 3
\* most rows read from results.csv plus results_optimized.csv (assignment1/b)
MaxRowsB == 3
\* most rows read from matmul_results.csv (assignment1/d)
MaxRowsD == 2

\* ------------------------------------------------------------- input domains
\* matrix sizes seen in results.csv (a) ; 2048 is a/plot_results.py's n_target
Sizes == {1024, 2048}
ThreadVals == {1, 2}
\* the pattern column of results.csv is kept as the string csv.DictReader yields
Patterns == {"0", "1"}
Secs == {1, 2}
\* the sec column of results.csv goes through float(): a time of 0 is read as well
SecsRead == Secs \cup {0}
\* every string the model compares with <, in Python's (code point) order
StrOrder == <<"0", "1", "Blocked", "RowMajor", "col_major",
              "row_major_rows_per_thread">>

Rows == [N : Sizes, threads : ThreadVals, pattern : Patterns, sec : SecsRead]

\* the inputs enumerated hold at most one row whose time is not positive
FewNonPositive(rows) ==
    \A i, j \in DOMAIN rows : (rows[i].sec <= 0 /\ rows[j].sec <= 0) => i = j

\* b: sizes (128 is outside the script's Ns) and integer pattern codes (6 has no name)
SizesB == {128, 256, 512}
CodesB == {0, 1, 6}
RowsB == [N : SizesB, pattern : CodesB, sec : Secs]

\* d: the columns of matmul_results.csv the plots and the report read.  Speedup is
\* kept in hundredths (200 is 2.00x), Efficiency in percent.
Methods == {"Blocked", "RowMajor"}
SizesD == {256, 512}
Speedups == {100, 200}
Efficiencies == {50, 100}
RowsD == [Method : Methods, MatrixSize : SizesD, Threads : ThreadVals,
          TimeSeconds : Secs, Speedup : Speedups, Efficiency : Efficiencies]

\* ------------------------------------------------------------- python helpers
None == <<>>
Some(v) == <<v>>

EmptyDict == <<>>

\* d[k] = v on a dict
DictSet(d, k, v) == [x \in (DOMAIN d) \cup {k} |-> IF x = k THEN v ELSE d[x]]

\* d.get(k, default)
DictGet(d, k, default) == IF k \in DOMAIN d THEN d[k] ELSE default

\* str < str (lexicographic by code point)
StrIndex(s) == CHOOSE i \in DOMAIN StrOrder : StrOrder[i] = s
StrLess(a, b) == StrIndex(a) < StrIndex(b)

Range(s) == {s[i] : i \in DOMAIN s}

MinOf(S) == CHOOSE x \in S : \A y \in S : x <= y
MaxOf(S) == CHOOSE x \in S : \A y \in S : y <= x

\* sorted(list(set(...))) on integers
RECURSIVE SortedInts(_)
SortedInts(S) == IF S = {} THEN <<>>
                 ELSE LET m == MinOf(S) IN <<m>> \o SortedInts(S \ {m})

\* sorted(list(set(...))) on pattern strings
RECURSIVE SortedStrs(_)
SortedStrs(S) == IF S = {} THEN <<>>
                 ELSE LET m == CHOOSE x \in S : \A y \in S : x = y \/ StrLess(x, y)
                      IN <<m>> \o SortedStrs(S \ {m})

\* ------------------------------------------------------------- state
VARIABLES
    script,                 \* which script this run executes
    pc,                     \* position in the script
    files,                  \* output artefacts written so far
    data,                   \* a: rows appended by the csv loop
    all_ns, patterns,       \* a/generate_report.py
    single_thread_data, thread_counts, multi_thread_data,
    max_n, best_times,
    single_thread_datasets, multi_thread_charts,
    best_time_labels, best_time_values,
    data_by_thread, sorted_patterns, single_plot,  \* a/plot_results.py
    df_base, df_opt,        \* b: rows of results.csv and results_optimized.csv
    df,                     \* b, d: the DataFrame the script works on
    methods, single_thread, multi_thread,          \* d/plot_results.py
    speedup_lines, efficiency_matrix, report

varsA == <<data, all_ns, patterns, single_thread_data, thread_counts,
           multi_thread_data, max_n, best_times, single_thread_datasets,
           multi_thread_charts, best_time_labels, best_time_values,
           data_by_thread, sorted_patterns, single_plot>>

varsB == <<df_base, df_opt>>

varsD == <<methods, single_thread, multi_thread, speedup_lines,
           efficiency_matrix, report>>

vars == <<script, pc, files, varsA, varsB, df, varsD>>

\* ------------------------------------------------------------- a/generate_report.py
AllNs(d) == SortedInts({d[i].N : i \in DOMAIN d})
PatternsOf(d) == SortedStrs({d[i].pattern : i \in DOMAIN d})

\* pattern -> {N -> sec} : dst[p][row['N']] = row['sec']
PutSeries(dst, row) ==
    DictSet(dst, row.pattern,
            DictSet(DictGet(dst, row.pattern, EmptyDict), row.N, row.sec))

\* the threads == 1 test of line 31 left out
SingleStepAnyThreads(acc, row) == PutSeries(acc, row)

\* lines 30-35
SingleStep(acc, row) == IF row.threads = 1 THEN PutSeries(acc, row) ELSE acc
SingleThreadData(d) ==
    LET RECURSIVE after(_)
        \* the dict after the first k iterations of the loop
        after(k) == IF k = 0 THEN EmptyDict ELSE SingleStep(after(k - 1), d[k])
    IN after(Len(d))

ThreadCounts(d) == SortedInts({d[i].threads : i \in {j \in DOMAIN d : d[j].threads > 1}})

\* lines 43-48 for one t
MultiStep(t, acc, row) == IF row.threads = t THEN PutSeries(acc, row) ELSE acc
MultiThreadFor(d, t) ==
    LET RECURSIVE after(_)
        \* the dict after the first k iterations of the loop
        after(k) == IF k = 0 THEN EmptyDict ELSE MultiStep(t, after(k - 1), d[k])
    IN after(Len(d))
MultiThreadData(d) ==
    [t \in Range(ThreadCounts(d)) |-> MultiThreadFor(d, t)]

\* the comparison of line 57 turned round: the slowest time is kept
BestStepAtSlowest(n, acc, row) ==
    IF row.N = n
    THEN IF row.pattern \notin DOMAIN acc \/ row.sec > acc[row.pattern]
         THEN DictSet(acc, row.pattern, row.sec)
         ELSE acc
    ELSE acc

\* if p not in best_times or s < best_times[p]: best_times[p] = s
BestStepAt(n, acc, row) ==
    IF row.N = n
    THEN IF row.pattern \notin DOMAIN acc \/ row.sec < acc[row.pattern]
         THEN DictSet(acc, row.pattern, row.sec)
         ELSE acc
    ELSE acc
BestTimesAt(d, n) ==
    LET RECURSIVE after(_)
        \* the dict after the first k iterations of the loop
        after(k) == IF k = 0 THEN EmptyDict ELSE BestStepAt(n, after(k - 1), d[k])
    IN after(Len(d))

\* .get(n, 0): a missing point defaulted to zero
SeriesPointZero(series, n) == IF n \in DOMAIN series THEN Some(series[n]) ELSE Some(0)

\* source_data[p].get(n, None)
SeriesPoint(series, n) == IF n \in DOMAIN series THEN Some(series[n]) ELSE None

\* get_datasets: one dataset per pattern of `patterns` present in source_data
RECURSIVE GetDatasetsFrom(_, _, _)
GetDatasetsFrom(source_data, pats, ns) ==
    IF pats = <<>> THEN <<>>
    ELSE LET p == Head(pats)
             rest == GetDatasetsFrom(source_data, Tail(pats), ns)
         IN IF p \in DOMAIN source_data
            THEN <<[label |-> p,
                    data |-> [i \in DOMAIN ns |-> SeriesPoint(source_data[p], ns[i])]]>>
                 \o rest
            ELSE rest

\* get_datasets appending only the sizes a pattern has a record for
RECURSIVE GetDatasetsCompact(_, _, _)
GetDatasetsCompact(source_data, pats, ns) ==
    IF pats = <<>> THEN <<>>
    ELSE LET p == Head(pats)
             rest == GetDatasetsCompact(source_data, Tail(pats), ns)
             Has(n) == n \in DOMAIN source_data[p]
             kept == SelectSeq(ns, Has)
         IN IF p \in DOMAIN source_data
            THEN <<[label |-> p,
                    data |-> [i \in DOMAIN kept |-> Some(source_data[p][kept[i]])]]>>
                 \o rest
            ELSE rest

\* lines 61-80
GetDatasets(source_data, pats, ns) == GetDatasetsFrom(source_data, pats, ns)

\* ------------------------------------------------------------- a/plot_results.py
\* data_by_thread[t][p] = [(n, s)]: the list replaced, not extended
GroupStepOverwrite(acc, row) ==
    LET byp == DictGet(acc, row.threads, EmptyDict)
    IN DictSet(acc, row.threads,
               DictSet(byp, row.pattern, <<(<<row.N, row.sec>>)>>))

\* lines 28-39: data_by_thread[t][p].append((n, s))
GroupStep(acc, row) ==
    LET byp == DictGet(acc, row.threads, EmptyDict)
        lst == DictGet(byp, row.pattern, <<>>)
    IN DictSet(acc, row.threads,
               DictSet(byp, row.pattern, Append(lst, <<row.N, row.sec>>)))
DataByThread(d) ==
    LET RECURSIVE after(_)
        \* the dict after the first k iterations of the loop
        after(k) == IF k = 0 THEN EmptyDict ELSE GroupStep(after(k - 1), d[k])
    IN after(Len(d))

\* tuple comparison (n1, s1) <= (n2, s2)
PairLeq(a, b) == a[1] < b[1] \/ (a[1] = b[1] /\ a[2] <= b[2])

\* sorted(list of (n, s) tuples)
RECURSIVE SortedPairs(_)
SortedPairs(l) ==
    IF l = <<>> THEN <<>>
    ELSE LET k == CHOOSE i \in DOMAIN l : \A j \in DOMAIN l : PairLeq(l[i], l[j])
             rest == [i \in 1..(Len(l) - 1) |-> IF i < k THEN l[i] ELSE l[i + 1]]
         IN <<l[k]>> \o SortedPairs(rest)

\* pattern_labels.get(int(p), p)
pattern_labels == [c \in {"0", "1"} |-> IF c = "0" THEN "blocked_32" ELSE "col_major"]
LabelName(p) == DictGet(pattern_labels, p, p)

\* the lines of the single-thread plot: for p in sorted_patterns if p in data_by_thread[1]
RECURSIVE SingleLines(_, _)
SingleLines(byp, pats) ==
    IF pats = <<>> THEN <<>>
    ELSE LET p == Head(pats)
             rest == SingleLines(byp, Tail(pats))
         IN IF p \in DOMAIN byp
            THEN LET pts == SortedPairs(byp[p])
                 IN <<[pattern |-> p, label |-> LabelName(p),
                       xs |-> [i \in DOMAIN pts |-> pts[i][1]],
                       ys |-> [i \in DOMAIN pts |-> pts[i][2]]]>> \o rest
            ELSE rest

n_target == 2048

\* ------------------------------------------------------------- actions of assignment1/a
ScriptsA == {"a/generate_report.py", "a/plot_results.py"}

\* for row in reader: ... data.append(row)
ReadRow ==
    /\ script \in ScriptsA /\ pc = "read"
    /\ Len(data) < MaxRows
    /\ \E row \in Rows :
          /\ FewNonPositive(Append(data, row))
          /\ data' = Append(data, row)
    /\ UNCHANGED <<script, pc, files, all_ns, patterns, single_thread_data,
                   thread_counts, multi_thread_data, max_n, best_times,
                   single_thread_datasets, multi_thread_charts, best_time_labels,
                   best_time_values, data_by_thread, sorted_patterns, single_plot,
                   varsB, df, varsD>>

\* results.csv missing, or a row that int()/float() rejects: exit(1)
ReadFails ==
    /\ script \in ScriptsA /\ pc = "read"
    /\ pc' = "exit1"
    /\ UNCHANGED <<script, files, varsA, varsB, df, varsD>>

\* the reader is exhausted
EndOfRows ==
    /\ script \in ScriptsA /\ pc = "read"
    /\ pc' = IF script = "a/generate_report.py" THEN "organize" ELSE "group"
    /\ UNCHANGED <<script, files, varsA, varsB, df, varsD>>

\* generate_report.py lines 26-48
Organize ==
    /\ script = "a/generate_report.py" /\ pc = "organize"
    /\ all_ns' = AllNs(data)
    /\ patterns' = PatternsOf(data)
    /\ single_thread_data' = SingleThreadData(data)
    /\ thread_counts' = ThreadCounts(data)
    /\ multi_thread_data' = MultiThreadData(data)
    /\ pc' = "best"
    /\ UNCHANGED <<script, files, data, max_n, best_times, single_thread_datasets,
                   multi_thread_charts, best_time_labels, best_time_values,
                   data_by_thread, sorted_patterns, single_plot, varsB, df, varsD>>

\* generate_report.py lines 51-58
BestTimes ==
    /\ script = "a/generate_report.py" /\ pc = "best"
    /\ all_ns # <<>>
    /\ max_n' = all_ns[Len(all_ns)]
    /\ best_times' = BestTimesAt(data, all_ns[Len(all_ns)])
    /\ pc' = "datasets"
    /\ UNCHANGED <<script, files, data, all_ns, patterns, single_thread_data,
                   thread_counts, multi_thread_data, single_thread_datasets,
                   multi_thread_charts, best_time_labels, best_time_values,
                   data_by_thread, sorted_patterns, single_plot, varsB, df, varsD>>

\* generate_report.py line 51 on no rows: max([]) raises ValueError
BestTimesNoRows ==
    /\ script = "a/generate_report.py" /\ pc = "best"
    /\ all_ns = <<>>
    /\ pc' = "crash"
    /\ UNCHANGED <<script, files, varsA, varsB, df, varsD>>

\* generate_report.py lines 82-92
BuildDatasets ==
    /\ script = "a/generate_report.py" /\ pc = "datasets"
    /\ single_thread_datasets' = GetDatasets(single_thread_data, patterns, all_ns)
    /\ multi_thread_charts' =
          [i \in DOMAIN thread_counts |->
              [threads |-> thread_counts[i],
               datasets |-> GetDatasets(multi_thread_data[thread_counts[i]],
                                        patterns, all_ns)]]
    /\ best_time_labels' = SortedStrs(DOMAIN best_times)
    /\ best_time_values' =
          LET labels == SortedStrs(DOMAIN best_times)
          IN [i \in DOMAIN labels |-> best_times[labels[i]]]
    /\ pc' = "write"
    /\ UNCHANGED <<script, files, data, all_ns, patterns, single_thread_data,
                   thread_counts, multi_thread_data, max_n, best_times,
                   data_by_thread, sorted_patterns, single_plot, varsB, df, varsD>>

\* generate_report.py lines 182-185
WriteReport ==
    /\ script = "a/generate_report.py" /\ pc = "write"
    /\ files' = files \cup {"benchmark_report.html"}
    /\ pc' = "done"
    /\ UNCHANGED <<script, varsA, varsB, df, varsD>>

\* plot_results.py lines 24-41
GroupRows ==
    /\ script = "a/plot_results.py" /\ pc = "group"
    /\ data_by_thread' = DataByThread(data)
    /\ sorted_patterns' = PatternsOf(data)
    /\ pc' = "plot_single"
    /\ UNCHANGED <<script, files, data, all_ns, patterns, single_thread_data,
                   thread_counts, multi_thread_data, max_n, best_times,
                   single_thread_datasets, multi_thread_charts, best_time_labels,
                   best_time_values, single_plot, varsB, df, varsD>>

\* plot_results.py lines 51-75
PlotSingle ==
    /\ script = "a/plot_results.py" /\ pc = "plot_single"
    /\ 1 \in DOMAIN data_by_thread
    /\ single_plot' = SingleLines(data_by_thread[1], sorted_patterns)
    /\ files' = files \cup {"plot_time_vs_size_single_thread.png"}
    /\ pc' = "best"
    /\ UNCHANGED <<script, data, all_ns, patterns, single_thread_data,
                   thread_counts, multi_thread_data, max_n, best_times,
                   single_thread_datasets, multi_thread_charts, best_time_labels,
                   best_time_values, data_by_thread, sorted_patterns, varsB, df, varsD>>

\* plot_results.py lines 76-77: print("Warning: No single thread data found.")
PlotSingleSkipped ==
    /\ script = "a/plot_results.py" /\ pc = "plot_single"
    /\ 1 \notin DOMAIN data_by_thread
    /\ pc' = "best"
    /\ UNCHANGED <<script, files, varsA, varsB, df, varsD>>

\* plot_results.py lines 79-87
BestTimesTarget ==
    /\ script = "a/plot_results.py" /\ pc = "best"
    /\ best_times' = BestTimesAt(data, n_target)
    /\ pc' = "plot_best"
    /\ UNCHANGED <<script, files, data, all_ns, patterns, single_thread_data,
                   thread_counts, multi_thread_data, max_n,
                   single_thread_datasets, multi_thread_charts, best_time_labels,
                   best_time_values, data_by_thread, sorted_patterns, single_plot,
                   varsB, df, varsD>>

\* plot_results.py lines 89-103; p_names and times are held in best_time_labels
\* and best_time_values
PlotBest ==
    /\ script = "a/plot_results.py" /\ pc = "plot_best"
    /\ IF best_times # EmptyDict
       THEN /\ best_time_labels' = SortedStrs(DOMAIN best_times)
            /\ best_time_values' =
                  LET labels == SortedStrs(DOMAIN best_times)
                  IN [i \in DOMAIN labels |-> best_times[labels[i]]]
            /\ files' = files \cup {"plot_best_time_per_pattern.png"}
       ELSE UNCHANGED <<best_time_labels, best_time_values, files>>
    /\ pc' = "done"
    /\ UNCHANGED <<script, data, all_ns, patterns, single_thread_data,
                   thread_counts, multi_thread_data, max_n, best_times,
                   single_thread_datasets, multi_thread_charts,
                   data_by_thread, sorted_patterns, single_plot, varsB, df, varsD>>

\* ------------------------------------------------------------- b/plot_best_time.py
\* pattern_names of lines 15-22, on the codes of the model
pattern_names == [c \in {0, 1} |-> IF c = 0 THEN "row_major_rows_per_thread"
                                   ELSE "col_major"]
NaN == "NaN"
\* df["pattern"].map(pattern_names): a code without a name maps to NaN
MapName(code) == DictGet(pattern_names, code, NaN)

Ns == {256, 512, 1024, 2048}

\* lines 8-12: version labels, pd.concat(..., ignore_index=True)
Concat(base, opt) ==
    [i \in 1..(Len(base) + Len(opt)) |->
        LET r == IF i <= Len(base) THEN base[i] ELSE opt[i - Len(base)]
        IN [idx |-> i - 1, N |-> r.N, pattern |-> r.pattern, sec |-> r.sec,
            version |-> IF i <= Len(base) THEN "unoptimized" ELSE "optimized"]]

\* lines 23-27: the pattern_name column, then df[df["N"].isin(Ns)]
WithNames(rows) ==
    [i \in DOMAIN rows |->
        [idx |-> rows[i].idx, N |-> rows[i].N, pattern |-> rows[i].pattern,
         sec |-> rows[i].sec, version |-> rows[i].version,
         pattern_name |-> MapName(rows[i].pattern)]]
KeepN(r) == r.N \in Ns
Combined(base, opt) == SelectSeq(WithNames(Concat(base, opt)), KeepN)

\* groupby(["N", "pattern_name"]): the keys, NaN keys dropped, ascending
GroupKeys(frame) ==
    {<<frame[i].N, frame[i].pattern_name>> :
        i \in {j \in DOMAIN frame : frame[j].pattern_name # NaN}}
KeyLess(a, b) == a[1] < b[1] \/ (a[1] = b[1] /\ StrLess(a[2], b[2]))
RECURSIVE SortedKeys(_)
SortedKeys(S) ==
    IF S = {} THEN <<>>
    ELSE LET m == CHOOSE x \in S : \A y \in S : x = y \/ KeyLess(x, y)
         IN <<m>> \o SortedKeys(S \ {m})

\* the group g of one key, rows in frame order
GroupRowsOf(frame, key) ==
    LET InGroup(r) == r.N = key[1] /\ r.pattern_name = key[2]
    IN SelectSeq(frame, InGroup)

\* g["sec"].idxmin(): the index label of the first row holding the minimum
IdxMinLast(g) ==
    LET m == MinOf({g[i].sec : i \in DOMAIN g})
        k == MaxOf({i \in DOMAIN g : g[i].sec = m})
    IN g[k].idx
IdxMin(g) ==
    LET m == MinOf({g[i].sec : i \in DOMAIN g})
        k == MinOf({i \in DOMAIN g : g[i].sec = m})
    IN g[k].idx

\* g.loc[label, column]
Loc(g, label) == g[CHOOSE i \in DOMAIN g : g[i].idx = label]

\* lines 30-38: one row per group
BestRow(frame, key) ==
    LET g == GroupRowsOf(frame, key)
        best_idx == IdxMin(g)
    IN [N |-> key[1], pattern_name |-> key[2],
        best_time_sec |-> Loc(g, best_idx).sec,
        best_version |-> Loc(g, best_idx).version]
BestRows(frame) ==
    LET keys == SortedKeys(GroupKeys(frame))
    IN [i \in DOMAIN keys |-> BestRow(frame, keys[i])]

\* the order of sort_values(["N", "pattern_name"])
SortLessByName(a, b) ==
    a.N < b.N \/ (a.N = b.N /\ StrLess(a.pattern_name, b.pattern_name))

\* line 40: sort_values(["N", "best_time_sec"]); equal keys keep their order
SortLess(a, b) ==
    a.N < b.N \/ (a.N = b.N /\ a.best_time_sec < b.best_time_sec)
RECURSIVE SortValues(_)
SortValues(rows) ==
    IF rows = <<>> THEN <<>>
    ELSE LET k == MinOf({i \in DOMAIN rows :
                            \A j \in DOMAIN rows : ~SortLess(rows[j], rows[i])})
             rest == [i \in 1..(Len(rows) - 1) |->
                         IF i < k THEN rows[i] ELSE rows[i + 1]]
         IN <<rows[k]>> \o SortValues(rest)

BestTimesSummary(frame) == SortValues(BestRows(frame))

\* ------------------------------------------------------------- actions of assignment1/b
\* one more row in results.csv
ReadBaseRow ==
    /\ script = "b/plot_best_time.py" /\ pc = "read"
    /\ Len(df_base) < MaxRowsB
    /\ \E row \in RowsB : df_base' = Append(df_base, row)
    /\ UNCHANGED <<script, pc, files, varsA, df_opt, df, varsD>>

\* line 4 done, line 5 starts
EndOfBase ==
    /\ script = "b/plot_best_time.py" /\ pc = "read"
    /\ pc' = "read_opt"
    /\ UNCHANGED <<script, files, varsA, varsB, df, varsD>>

\* one more row in results_optimized.csv
ReadOptRow ==
    /\ script = "b/plot_best_time.py" /\ pc = "read_opt"
    /\ Len(df_base) + Len(df_opt) < MaxRowsB
    /\ \E row \in RowsB : df_opt' = Append(df_opt, row)
    /\ UNCHANGED <<script, pc, files, varsA, df_base, df, varsD>>

\* pd.read_csv raises (a file is missing or unreadable): the script dies
ReadCsvFails ==
    /\ script = "b/plot_best_time.py" /\ pc \in {"read", "read_opt"}
    /\ pc' = "crash"
    /\ UNCHANGED <<script, files, varsA, varsB, df, varsD>>

\* lines 8-27
Combine ==
    /\ script = "b/plot_best_time.py" /\ pc = "read_opt"
    /\ df' = Combined(df_base, df_opt)
    /\ pc' = "extract"
    /\ UNCHANGED <<script, files, varsA, varsB, varsD>>

\* lines 30-44
Extract ==
    /\ script = "b/plot_best_time.py" /\ pc = "extract"
    /\ GroupKeys(df) # {}
    /\ best_times' = BestTimesSummary(df)
    /\ pc' = "save"
    /\ UNCHANGED <<script, files, data, all_ns, patterns, single_thread_data,
                   thread_counts, multi_thread_data, max_n,
                   single_thread_datasets, multi_thread_charts, best_time_labels,
                   best_time_values, data_by_thread, sorted_patterns, single_plot,
                   varsB, df, varsD>>

\* line 40 with no group: pd.DataFrame([]) has no column "N", sort_values raises KeyError
ExtractNoRows ==
    /\ script = "b/plot_best_time.py" /\ pc = "extract"
    /\ GroupKeys(df) = {}
    /\ pc' = "crash"
    /\ UNCHANGED <<script, files, varsA, varsB, df, varsD>>

\* line 47
SaveSummary ==
    /\ script = "b/plot_best_time.py" /\ pc = "save"
    /\ files' = files \cup {"best_times_summary.csv"}
    /\ pc' = "done"
    /\ UNCHANGED <<script, varsA, varsB, df, varsD>>

NextB ==
    \/ ReadBaseRow \/ EndOfBase \/ ReadOptRow \/ ReadCsvFails
    \/ Combine \/ Extract \/ ExtractNoRows \/ SaveSummary

\* ------------------------------------------------------------- d/plot_results.py
\* Series.max() of an empty column is nan; a number v is <<v>>
nan == <<>>
ColMax(S) == IF S = {} THEN nan ELSE <<MaxOf(S)>>

\* Series.unique(): the values in order of first appearance
RECURSIVE Unique(_)
Unique(col) ==
    IF col = <<>> THEN <<>>
    ELSE LET front == Unique(SubSeq(col, 1, Len(col) - 1))
             last == col[Len(col)]
         IN IF last \in Range(front) THEN front ELSE Append(front, last)

MethodsOf(frame) == Unique([i \in DOMAIN frame |-> frame[i].Method])
SizesOf(frame) == SortedInts({frame[i].MatrixSize : i \in DOMAIN frame})
LargestSize(frame) == ColMax({frame[i].MatrixSize : i \in DOMAIN frame})
MaxThreads(frame) == ColMax({frame[i].Threads : i \in DOMAIN frame})

\* frame[frame[column] == value]; a comparison with nan selects nothing
OfMethod(frame, method) ==
    LET P(r) == r.Method = method IN SelectSeq(frame, P)
OfSize(frame, size) ==
    LET P(r) == size # nan /\ r.MatrixSize = size[1] IN SelectSeq(frame, P)
OfThreads(frame, t) ==
    LET P(r) == t # nan /\ r.Threads = t[1] IN SelectSeq(frame, P)

TimeValues(frame) == [i \in DOMAIN frame |-> frame[i].TimeSeconds]

\* line 48: method_data.groupby('MatrixSize')['TimeSeconds'].min()
GroupMin(method_data) ==
    LET index == SizesOf(method_data)
    IN [index |-> index,
        values |-> [i \in DOMAIN index |->
                      MinOf({method_data[k].TimeSeconds :
                               k \in {j \in DOMAIN method_data :
                                        method_data[j].MatrixSize = index[i]}})]]

\* lines 46-51: one line per method
TimeLines(frame) ==
    LET ms == MethodsOf(frame)
    IN [i \in DOMAIN ms |->
          [label |-> ms[i], best_times |-> GroupMin(OfMethod(frame, ms[i]))]]

\* lines 63-68
SingleThread(frame) ==
    TimeValues(OfThreads(OfSize(frame, LargestSize(frame)), <<1>>))
MultiThread(frame) ==
    LET subset == OfSize(frame, LargestSize(frame))
    IN TimeValues(OfThreads(subset, MaxThreads(subset)))

\* Axes.bar broadcasts x against height: equal lengths, or one of them of length 1
BarShapesOk(nx, nheight) == nx = nheight \/ nx = 1 \/ nheight = 1

\* sort_values('Threads'): rows of equal Threads keep their order
RECURSIVE SortByThreads(_)
SortByThreads(rows) ==
    IF rows = <<>> THEN <<>>
    ELSE LET k == MinOf({i \in DOMAIN rows :
                            \A j \in DOMAIN rows : rows[i].Threads <= rows[j].Threads})
             rest == [i \in 1..(Len(rows) - 1) |->
                         IF i < k THEN rows[i] ELSE rows[i + 1]]
         IN <<rows[k]>> \o SortByThreads(rest)

\* lines 97-111: Speedup against Threads, one line per method, largest size
SpeedupLines(frame) ==
    LET ms == MethodsOf(frame)
        subset == OfSize(frame, LargestSize(frame))
    IN [i \in DOMAIN ms |->
          LET method_data == SortByThreads(OfMethod(subset, ms[i]))
          IN [label |-> ms[i],
              threads |-> [k \in DOMAIN method_data |-> method_data[k].Threads],
              speedup |-> [k \in DOMAIN method_data |-> method_data[k].Speedup]]]

\* lines 186-190: the cell of one method and size, np.zeros where nothing is assigned
HeatCell(frame, method, size) ==
    LET subset_data == OfThreads(OfSize(OfMethod(frame, method), <<size>>),
                                 MaxThreads(frame))
    IN IF Len(subset_data) > 0 THEN subset_data[1].Efficiency ELSE 0

\* lines 180-190
EfficiencyMatrix(frame) ==
    LET ms == MethodsOf(frame)
        sizes == SizesOf(frame)
    IN [i \in DOMAIN ms |-> [j \in DOMAIN sizes |-> HeatCell(frame, ms[i], sizes[j])]]

\* the rows the text report reads: subset[(Method == m) & (Threads == t)]
ReportRows(frame, method, t) ==
    OfThreads(OfMethod(OfSize(frame, LargestSize(frame)), method), t)

\* .values[0] raises IndexError on an empty selection
ReportReadable(frame) ==
    \A m \in Range(MethodsOf(frame)) :
        /\ ReportRows(frame, m, <<1>>) # <<>>
        /\ ReportRows(frame, m, MaxThreads(frame)) # <<>>

\* a quotient num/den, kept unreduced
Frac(num, den) == [num |-> num, den |-> den]

\* lines 429-433: t1, tn, improvement = ((t1 - tn) / t1) * 100
TimeRow(frame, method) ==
    LET t1 == ReportRows(frame, method, <<1>>)[1].TimeSeconds
        tn == ReportRows(frame, method, MaxThreads(frame))[1].TimeSeconds
    IN [method |-> method, t1 |-> t1, tn |-> tn,
        improvement |-> Frac((t1 - tn) * 100, t1)]

\* lines 443-446: speedup, vs_ideal = (speedup / max_threads) * 100
SpeedupRow(frame, method) ==
    LET speedup == ReportRows(frame, method, MaxThreads(frame))[1].Speedup
    IN [method |-> method, speedup |-> speedup,
        vs_ideal |-> Frac(speedup, MaxThreads(frame)[1])]

\* lines 456-458
EfficiencyRow(frame, method) ==
    [method |-> method,
     eff |-> ReportRows(frame, method, MaxThreads(frame))[1].Efficiency]

TextReport(frame) ==
    LET ms == MethodsOf(frame)
    IN [time |-> [i \in DOMAIN ms |-> TimeRow(frame, ms[i])],
        speedup |-> [i \in DOMAIN ms |-> SpeedupRow(frame, ms[i])],
        efficiency |-> [i \in DOMAIN ms |-> EfficiencyRow(frame, ms[i])]]

\* lines 311-313, 327: the dashboard's bars and peak_data
PeakData(frame) == OfThreads(OfSize(frame, LargestSize(frame)), MaxThreads(frame))
DashboardSingle(frame) ==
    TimeValues(OfThreads(OfSize(frame, LargestSize(frame)), <<1>>))
DashboardMulti(frame) == TimeValues(PeakData(frame))

\* the dashboard draws: its bars broadcast and peak_data['TimeSeconds'].idxmin()
\* has a row to return (idxmin of an empty Series raises ValueError)
DashboardDraws(frame) ==
    /\ BarShapesOk(Len(MethodsOf(frame)), Len(DashboardSingle(frame)))
    /\ BarShapesOk(Len(MethodsOf(frame)), Len(DashboardMulti(frame)))
    /\ PeakData(frame) # <<>>

\* ------------------------------------------------------------- actions of assignment1/d
\* one more row in matmul_results.csv
ReadRowD ==
    /\ script = "d/plot_results.py" /\ pc = "read"
    /\ Len(df) < MaxRowsD
    /\ \E row \in RowsD : df' = Append(df, row)
    /\ UNCHANGED <<script, pc, files, varsA, varsB, varsD>>

\* load_data lines 22-25: no matmul_results.csv, main returns
LoadNoFile ==
    /\ script = "d/plot_results.py" /\ pc = "read"
    /\ df = <<>>
    /\ pc' = "returned"
    /\ UNCHANGED <<script, files, varsA, varsB, df, varsD>>

\* load_data lines 27-29, create_output_directory
LoadData ==
    /\ script = "d/plot_results.py" /\ pc = "read"
    /\ pc' = "plot_time_comparison"
    /\ UNCHANGED <<script, files, varsA, varsB, df, varsD>>

\* plot_time_comparison, lines 37-87
PlotTimeComparison ==
    /\ script = "d/plot_results.py" /\ pc = "plot_time_comparison"
    /\ BarShapesOk(Len(MethodsOf(df)), Len(SingleThread(df)))
    /\ BarShapesOk(Len(MethodsOf(df)), Len(MultiThread(df)))
    /\ methods' = MethodsOf(df)
    /\ best_times' = TimeLines(df)
    /\ single_thread' = SingleThread(df)
    /\ multi_thread' = MultiThread(df)
    /\ files' = files \cup {"plots/01_time_comparison.png"}
    /\ pc' = "plot_speedup_analysis"
    /\ UNCHANGED <<script, data, all_ns, patterns, single_thread_data,
                   thread_counts, multi_thread_data, max_n,
                   single_thread_datasets, multi_thread_charts, best_time_labels,
                   best_time_values, data_by_thread, sorted_patterns, single_plot,
                   varsB, df, speedup_lines, efficiency_matrix, report>>

\* plot_time_comparison, lines 73-74: ax2.bar raises ValueError (shape mismatch)
PlotTimeComparisonFails ==
    /\ script = "d/plot_results.py" /\ pc = "plot_time_comparison"
    /\ \/ ~BarShapesOk(Len(MethodsOf(df)), Len(SingleThread(df)))
       \/ ~BarShapesOk(Len(MethodsOf(df)), Len(MultiThread(df)))
    /\ methods' = MethodsOf(df)
    /\ best_times' = TimeLines(df)
    /\ single_thread' = SingleThread(df)
    /\ multi_thread' = MultiThread(df)
    /\ pc' = "crash"
    /\ UNCHANGED <<script, files, data, all_ns, patterns, single_thread_data,
                   thread_counts, multi_thread_data, max_n,
                   single_thread_datasets, multi_thread_charts, best_time_labels,
                   best_time_values, data_by_thread, sorted_patterns, single_plot,
                   varsB, df, speedup_lines, efficiency_matrix, report>>

\* plot_speedup_analysis, lines 89-146
PlotSpeedupAnalysis ==
    /\ script = "d/plot_results.py" /\ pc = "plot_speedup_analysis"
    /\ speedup_lines' = SpeedupLines(df)
    /\ files' = files \cup {"plots/02_speedup_analysis.png"}
    /\ pc' = "plot_efficiency_analysis"
    /\ UNCHANGED <<script, varsA, varsB, df, methods, single_thread, multi_thread,
                   efficiency_matrix, report>>

\* plot_efficiency_analysis, lines 148-212
PlotEfficiencyAnalysis ==
    /\ script = "d/plot_results.py" /\ pc = "plot_efficiency_analysis"
    /\ efficiency_matrix' = EfficiencyMatrix(df)
    /\ files' = files \cup {"plots/03_efficiency_analysis.png"}
    /\ pc' = "plot_gflops_comparison"
    /\ UNCHANGED <<script, varsA, varsB, df, methods, single_thread, multi_thread,
                   speedup_lines, report>>

\* plot_gflops_comparison, lines 214-261
PlotGflopsComparison ==
    /\ script = "d/plot_results.py" /\ pc = "plot_gflops_comparison"
    /\ files' = files \cup {"plots/04_gflops_comparison.png"}
    /\ pc' = "plot_scalability_analysis"
    /\ UNCHANGED <<script, varsA, varsB, df, varsD>>

\* plot_scalability_analysis, lines 263-298
PlotScalabilityAnalysis ==
    /\ script = "d/plot_results.py" /\ pc = "plot_scalability_analysis"
    /\ files' = files \cup {"plots/05_scalability_analysis.png"}
    /\ pc' = "plot_summary_dashboard"
    /\ UNCHANGED <<script, varsA, varsB, df, varsD>>

\* plot_summary_dashboard, lines 300-405
PlotSummaryDashboard ==
    /\ script = "d/plot_results.py" /\ pc = "plot_summary_dashboard"
    /\ DashboardDraws(df)
    /\ files' = files \cup {"plots/06_summary_dashboard.png"}
    /\ pc' = "generate_text_report"
    /\ UNCHANGED <<script, varsA, varsB, df, varsD>>

\* plot_summary_dashboard raises at line 316, 317 or 373
PlotSummaryDashboardFails ==
    /\ script = "d/plot_results.py" /\ pc = "plot_summary_dashboard"
    /\ ~DashboardDraws(df)
    /\ pc' = "crash"
    /\ UNCHANGED <<script, files, varsA, varsB, df, varsD>>

\* generate_text_report, lines 407-474
GenerateTextReport ==
    /\ script = "d/plot_results.py" /\ pc = "generate_text_report"
    /\ ReportReadable(df)
    /\ report' = TextReport(df)
    /\ files' = files \cup {"plots/comparison_report.txt"}
    /\ pc' = "done"
    /\ UNCHANGED <<script, varsA, varsB, df, methods, single_thread, multi_thread,
                   speedup_lines, efficiency_matrix>>

\* generate_text_report: .values[0] raises IndexError at line 430 or 431, after
\* the header lines went into the open file
GenerateTextReportFails ==
    /\ script = "d/plot_results.py" /\ pc = "generate_text_report"
    /\ ~ReportReadable(df)
    /\ files' = files \cup {"plots/comparison_report.txt (incomplete)"}
    /\ pc' = "crash"
    /\ UNCHANGED <<script, varsA, varsB, df, varsD>>

NextD ==
    \/ ReadRowD \/ LoadNoFile \/ LoadData
    \/ PlotTimeComparison \/ PlotTimeComparisonFails
    \/ PlotSpeedupAnalysis \/ PlotEfficiencyAnalysis
    \/ PlotGflopsComparison \/ PlotScalabilityAnalysis
    \/ PlotSummaryDashboard \/ PlotSummaryDashboardFails
    \/ GenerateTextReport \/ GenerateTextReportFails

NextA ==
    \/ ReadRow \/ ReadFails \/ EndOfRows
    \/ Organize \/ BestTimes \/ BestTimesNoRows \/ BuildDatasets \/ WriteReport
    \/ GroupRows \/ PlotSingle \/ PlotSingleSkipped \/ BestTimesTarget \/ PlotBest

InitVars ==
    /\ pc = "read"
    /\ files = {}
    /\ data = <<>>
    /\ all_ns = <<>> /\ patterns = <<>>
    /\ single_thread_data = EmptyDict /\ thread_counts = <<>>
    /\ multi_thread_data = EmptyDict
    /\ max_n = None /\ best_times = EmptyDict
    /\ single_thread_datasets = <<>> /\ multi_thread_charts = <<>>
    /\ best_time_labels = <<>> /\ best_time_values = <<>>
    /\ data_by_thread = EmptyDict /\ sorted_patterns = <<>> /\ single_plot = <<>>
    /\ df_base = <<>> /\ df_opt = <<>> /\ df = <<>>
    /\ methods = <<>> /\ single_thread = <<>> /\ multi_thread = <<>>
    /\ speedup_lines = <<>> /\ efficiency_matrix = <<>> /\ report = <<>>

InitA == script \in ScriptsA /\ InitVars

SpecA == InitA /\ [][NextA]_vars

InitB == script = "b/plot_best_time.py" /\ InitVars

SpecB == InitB /\ [][NextB]_vars

InitD == script = "d/plot_results.py" /\ InitVars

SpecD == InitD /\ [][NextD]_vars

\* any one of the scripts
Init == InitA \/ InitB \/ InitD

Next == NextA \/ NextB \/ NextD

Spec == Init /\ [][Next]_vars

\* ------------------------------------------------------------- where a run stands
\* generate_report.py has computed best_times
ReportHasBest ==
    script = "a/generate_report.py" /\ pc \in {"datasets", "write", "done"}
\* generate_report.py has built its datasets
ReportAssembled == script = "a/generate_report.py" /\ pc \in {"write", "done"}
\* a/plot_results.py has grouped the rows
PlotsGrouped ==
    script = "a/plot_results.py" /\ pc \in {"plot_single", "best", "plot_best", "done"}
\* a/plot_results.py is past its single-thread block
PlotsPastSingle == script = "a/plot_results.py" /\ pc \in {"best", "plot_best", "done"}
\* a/plot_results.py has computed best_times
PlotsHaveBest == script = "a/plot_results.py" /\ pc \in {"plot_best", "done"}
\* plot_best_time.py has built the summary
SummaryBuilt == script = "b/plot_best_time.py" /\ pc \in {"save", "done"}
\* d/plot_results.py has drawn the time comparison
TimeComparisonDrawn ==
    script = "d/plot_results.py" /\
    pc \in {"plot_speedup_analysis", "plot_efficiency_analysis",
            "plot_gflops_comparison", "plot_scalability_analysis",
            "plot_summary_dashboard", "generate_text_report", "done"}

\* the rows of both files of assignment1/b in input order
InputB == df_base \o df_opt

\* ------------------------------------------------------------- C1
\* the (N, pattern) group of results.csv
GroupA(n, p) == {i \in DOMAIN data : data[i].N = n /\ data[i].pattern = p}
\* the (N, pattern_name) group of the two files of assignment1/b
GroupB(n, name) ==
    {i \in DOMAIN InputB : InputB[i].N = n /\ MapName(InputB[i].pattern) = name}
\* the (Method, MatrixSize) group of matmul_results.csv
GroupD(m, size) == {i \in DOMAIN df : df[i].Method = m /\ df[i].MatrixSize = size}

MinimalInA(n) ==
    \A p \in DOMAIN best_times :
        /\ \E i \in GroupA(n, p) : data[i].sec = best_times[p]
        /\ \A i \in GroupA(n, p) : best_times[p] <= data[i].sec

\* C1: every best time reported (per pattern at the selected N by the two scripts of
\* assignment1/a, per (N, pattern_name) by best_times_summary, per MatrixSize and
\* Method by the time-vs-size plot) is the elapsed time of a record of exactly that
\* group and is <= the elapsed time of every record of that group.
C1_BestTimeMinimalMember ==
    /\ ReportHasBest => MinimalInA(max_n)
    /\ PlotsHaveBest => MinimalInA(n_target)
    /\ SummaryBuilt =>
          \A k \in DOMAIN best_times :
              LET g == GroupB(best_times[k].N, best_times[k].pattern_name)
              IN /\ \E i \in g : InputB[i].sec = best_times[k].best_time_sec
                 /\ \A i \in g : best_times[k].best_time_sec <= InputB[i].sec
    /\ TimeComparisonDrawn =>
          \A k \in DOMAIN best_times :
              \A j \in DOMAIN best_times[k].best_times.index :
                  LET g == GroupD(best_times[k].label, best_times[k].best_times.index[j])
                      v == best_times[k].best_times.values[j]
                  IN /\ \E i \in g : df[i].TimeSeconds = v
                     /\ \A i \in g : v <= df[i].TimeSeconds

\* a finished report whose largest-N group of one pattern holds a slower record
\* followed by a faster one, beside a second pattern
C1_Witness ==
    /\ script = "a/generate_report.py" /\ pc = "done"
    /\ Cardinality(DOMAIN best_times) = 2
    /\ \E i, j \in DOMAIN data :
          /\ i < j /\ data[i].N = max_n /\ data[j].N = max_n
          /\ data[i].pattern = data[j].pattern
          /\ data[j].sec < data[i].sec
          /\ best_times[data[i].pattern] = data[j].sec

\* ------------------------------------------------------------- C2
VersionOfInput(i) == IF i <= Len(df_base) THEN "unoptimized" ELSE "optimized"

\* the first row, in input order, holding the least elapsed time of its group
FirstMinimal(g) ==
    LET m == MinOf({InputB[i].sec : i \in g})
    IN MinOf({i \in g : InputB[i].sec = m})

\* C2: the best_version of every row of the best-time table is the version of the
\* first record, in input order (results.csv rows, then results_optimized.csv rows),
\* that holds the minimal elapsed time of the row's (N, pattern_name) group.
C2_TieFirstEncountered ==
    SummaryBuilt =>
        \A k \in DOMAIN best_times :
            best_times[k].best_version =
                VersionOfInput(FirstMinimal(GroupB(best_times[k].N,
                                                   best_times[k].pattern_name)))

\* a saved summary for a group whose minimal time is held by a row of
\* results.csv and again by a row of results_optimized.csv
C2_Witness ==
    /\ script = "b/plot_best_time.py" /\ pc = "done"
    /\ \E k \in DOMAIN best_times :
          LET g == GroupB(best_times[k].N, best_times[k].pattern_name)
          IN /\ \E i, j \in g :
                  /\ i <= Len(df_base) /\ j > Len(df_base)
                  /\ InputB[i].sec = best_times[k].best_time_sec
                  /\ InputB[j].sec = best_times[k].best_time_sec
             /\ best_times[k].best_version = "unoptimized"

\* ------------------------------------------------------------- C3
\* the records of results.csv with one (pattern, size, threads) key
KeyA(p, n, t) ==
    {i \in DOMAIN data : data[i].pattern = p /\ data[i].N = n /\ data[i].threads = t}
\* the records of matmul_results.csv with one (method, size, threads) key
KeyD(m, size, t) ==
    {i \in DOMAIN df : df[i].Method = m /\ df[i].MatrixSize = size /\ df[i].Threads = t}

SeriesUseMinimum(datasets, t) ==
    \A k \in DOMAIN datasets :
        \A i \in DOMAIN datasets[k].data :
            datasets[k].data[i] # None =>
                datasets[k].data[i][1] =
                    MinOf({data[r].sec : r \in KeyA(datasets[k].label, all_ns[i], t)})

\* C3: the value every series and table uses for a (pattern, size, threads) key is
\* the minimum elapsed time among the records with that key.
C3_RepresentativeIsMinimum ==
    /\ ReportAssembled =>
          /\ SeriesUseMinimum(single_thread_datasets, 1)
          /\ \A c \in DOMAIN multi_thread_charts :
                SeriesUseMinimum(multi_thread_charts[c].datasets,
                                 multi_thread_charts[c].threads)
    /\ (script = "d/plot_results.py" /\ pc = "done") =>
          \A k \in DOMAIN report.time :
              LET m == report.time[k].method
                  size == LargestSize(df)[1]
              IN /\ report.time[k].t1 =
                       MinOf({df[r].TimeSeconds : r \in KeyD(m, size, 1)})
                 /\ report.time[k].tn =
                       MinOf({df[r].TimeSeconds : r \in KeyD(m, size, MaxThreads(df)[1])})

\* ------------------------------------------------------------- C4
\* C4: with a threads == 1 record of elapsed B and a record at the reported thread
\* count T > 1 of elapsed E (same method, largest size), the speedup of the text
\* report equals B/E and its efficiency equals (B/E)/T*100.  Speedup is held in
\* hundredths, so speedup = B/E reads speedup * E = 100 * B.
C4_MetricsFollowFormula ==
    (script = "d/plot_results.py" /\ pc = "done" /\ MaxThreads(df)[1] > 1) =>
        \A k \in DOMAIN report.speedup :
            LET m == report.speedup[k].method
                size == LargestSize(df)[1]
                T == MaxThreads(df)[1]
            IN \A i \in KeyD(m, size, 1) : \A j \in KeyD(m, size, T) :
                  /\ report.speedup[k].speedup * df[j].TimeSeconds
                        = 100 * df[i].TimeSeconds
                  /\ report.efficiency[k].eff * df[j].TimeSeconds * T
                        = 100 * df[i].TimeSeconds

\* ------------------------------------------------------------- C5
\* a single-thread record of results.csv
HasBaseline(p, n) == KeyA(p, n, 1) # {}

\* C5: the single-thread output holds a value for a (pattern, size) pair only when a
\* threads == 1 record of that pair exists, and the value is that of such a record;
\* a pair without one gets no dataset, no point and no number.
C5_MissingBaselineExcluded ==
    /\ ReportAssembled =>
          \A k \in DOMAIN single_thread_datasets :
              LET ds == single_thread_datasets[k]
              IN /\ \E n \in Range(all_ns) : HasBaseline(ds.label, n)
                 /\ \A i \in DOMAIN ds.data :
                       IF HasBaseline(ds.label, all_ns[i])
                       THEN \E r \in KeyA(ds.label, all_ns[i], 1) :
                               ds.data[i] = Some(data[r].sec)
                       ELSE ds.data[i] = None
    /\ PlotsPastSingle =>
          \A k \in DOMAIN single_plot :
              \A i \in DOMAIN single_plot[k].xs :
                  \E r \in KeyA(single_plot[k].pattern, single_plot[k].xs[i], 1) :
                      data[r].sec = single_plot[k].ys[i]

\* a written report where a pattern has its baseline at one size and only
\* multi-thread records at another
C5_Witness ==
    /\ script = "a/generate_report.py" /\ pc = "done"
    /\ \E k \in DOMAIN single_thread_datasets :
          \E i, j \in DOMAIN all_ns :
              LET p == single_thread_datasets[k].label
              IN /\ HasBaseline(p, all_ns[i])
                 /\ ~HasBaseline(p, all_ns[j])
                 /\ \E t \in ThreadVals : t > 1 /\ KeyA(p, all_ns[j], t) # {}
                 /\ single_thread_datasets[k].data[j] = None

\* ------------------------------------------------------------- C6
\* every series is as long as the axis and holds at index i a value recorded for
\* all_ns[i], whenever there is one
AlignedSeries(datasets, t) ==
    \A k \in DOMAIN datasets :
        /\ Len(datasets[k].data) = Len(all_ns)
        /\ \A i \in DOMAIN all_ns :
              LET recs == KeyA(datasets[k].label, all_ns[i], t)
              IN recs # {} =>
                    \E r \in recs : datasets[k].data[i] = Some(data[r].sec)

\* C6: in the single-thread chart and in every per-thread-count chart, each series
\* has exactly len(all_ns) entries and its entry at index i is a value recorded for
\* axis value all_ns[i], the series' pattern and the chart's thread count.
C6_SeriesAlignedToAxis ==
    ReportAssembled =>
        /\ AlignedSeries(single_thread_datasets, 1)
        /\ \A c \in DOMAIN multi_thread_charts :
              AlignedSeries(multi_thread_charts[c].datasets,
                            multi_thread_charts[c].threads)

\* a written report with two sizes on the axis and two single-thread series, one
\* of them measured at the larger size only
C6_Witness ==
    /\ script = "a/generate_report.py" /\ pc = "done"
    /\ Len(all_ns) = 2
    /\ Len(single_thread_datasets) = 2
    /\ single_thread_datasets[1].data[1] = None
    /\ single_thread_datasets[1].data[2] # None
    /\ single_thread_datasets[2].data[1] # None

\* ------------------------------------------------------------- C7
AbsentMarked(datasets, t) ==
    \A k \in DOMAIN datasets :
        \A i \in DOMAIN all_ns :
            KeyA(datasets[k].label, all_ns[i], t) = {} =>
                /\ i \in DOMAIN datasets[k].data
                /\ datasets[k].data[i] = None
                /\ datasets[k].data[i] # Some(0)

\* C7: an axis value without a record for a series' pattern (at the chart's thread
\* count) keeps its position in the series and holds None there, never 0.
C7_AbsentIsNone ==
    ReportAssembled =>
        /\ AbsentMarked(single_thread_datasets, 1)
        /\ \A c \in DOMAIN multi_thread_charts :
              AbsentMarked(multi_thread_charts[c].datasets,
                           multi_thread_charts[c].threads)

\* a written report whose multi-thread chart has a series with a gap before a
\* measured point
C7_Witness ==
    /\ script = "a/generate_report.py" /\ pc = "done"
    /\ \E c \in DOMAIN multi_thread_charts :
          \E k \in DOMAIN multi_thread_charts[c].datasets :
              LET pts == multi_thread_charts[c].datasets[k].data
              IN Len(pts) = 2 /\ pts[1] = None /\ pts[2] # None

\* ------------------------------------------------------------- C8
\* d/plot_results.py has filled the heatmap
HeatmapFilled ==
    script = "d/plot_results.py" /\
    pc \in {"plot_gflops_comparison", "plot_scalability_analysis",
            "plot_summary_dashboard", "generate_text_report", "done"}

\* C8: a heatmap cell of a (method, matrix size) without a record at the maximum
\* thread count is never 0.
C8_HeatmapAbsentNotZero ==
    HeatmapFilled =>
        \A i \in DOMAIN efficiency_matrix :
            \A j \in DOMAIN efficiency_matrix[i] :
                KeyD(methods[i], SizesOf(df)[j], MaxThreads(df)[1]) = {} =>
                    efficiency_matrix[i][j] # 0

\* ------------------------------------------------------------- C9
CountIn(list, x) == Cardinality({i \in DOMAIN list : list[i] = x})

\* data_by_thread[t][p], empty when there is no such key
GroupList(t, p) ==
    IF t \in DOMAIN data_by_thread /\ p \in DOMAIN data_by_thread[t]
    THEN data_by_thread[t][p]
    ELSE <<>>

\* C9: data_by_thread partitions the records: the list of (threads, pattern) holds
\* each (N, sec) pair exactly as often as the input holds a record with that
\* threads, pattern, N and sec, and there are no other keys.
C9_GroupingIsPartition ==
    PlotsGrouped =>
        /\ DOMAIN data_by_thread \subseteq ThreadVals
        /\ \A t \in DOMAIN data_by_thread : DOMAIN data_by_thread[t] \subseteq Patterns
        /\ \A t \in ThreadVals : \A p \in Patterns :
              /\ Range(GroupList(t, p)) \subseteq Sizes \X SecsRead
              /\ \A n \in Sizes : \A sec \in SecsRead :
                    CountIn(GroupList(t, p), <<n, sec>>) =
                        CountIn(data, [N |-> n, threads |-> t, pattern |-> p, sec |-> sec])

\* grouped rows with one group of two records and a second group
C9_Witness ==
    /\ script = "a/plot_results.py" /\ pc = "done"
    /\ \E t \in DOMAIN data_by_thread : \E p \in DOMAIN data_by_thread[t] :
          Len(data_by_thread[t][p]) = 2
    /\ Cardinality({<<data[i].threads, data[i].pattern>> : i \in DOMAIN data}) = 2

\* ------------------------------------------------------------- C10
\* the rows in another order
Permuted(rows, f) == [i \in DOMAIN rows |-> rows[f[i]]]

\* what generate_report.py hands to the page for the rows d
AssembledReport(d) ==
    LET ns == AllNs(d)
        pats == PatternsOf(d)
        tcs == ThreadCounts(d)
        best == BestTimesAt(d, ns[Len(ns)])
        labels == SortedStrs(DOMAIN best)
    IN [axis |-> ns,
        single |-> GetDatasets(SingleThreadData(d), pats, ns),
        multi |-> [i \in DOMAIN tcs |->
                     [threads |-> tcs[i],
                      datasets |-> GetDatasets(MultiThreadFor(d, tcs[i]), pats, ns)]],
        best_labels |-> labels,
        best_values |-> [i \in DOMAIN labels |-> best[labels[i]]]]

\* C10: any permutation of the input rows yields the same assembled output: same
\* axis, same series labels in the same order, same series values, same best times.
C10_InputOrderIndependent ==
    /\ (script = "a/generate_report.py" /\ pc = "done") =>
          \A f \in Permutations(DOMAIN data) :
              AssembledReport(Permuted(data, f)) =
                  [axis |-> all_ns,
                   single |-> single_thread_datasets,
                   multi |-> multi_thread_charts,
                   best_labels |-> best_time_labels,
                   best_values |-> best_time_values]
    /\ TimeComparisonDrawn =>
          \A f \in Permutations(DOMAIN df) :
              /\ MethodsOf(Permuted(df, f)) = methods
              /\ TimeLines(Permuted(df, f)) = best_times

\* ------------------------------------------------------------- C11
\* a (pattern, N) pair of results.csv with records but none at threads == 1
NoBaselineA == \E i \in DOMAIN data : KeyA(data[i].pattern, data[i].N, 1) = {}
\* a (Method, MatrixSize) pair of matmul_results.csv with records but none at
\* Threads == 1
NoBaselineD == \E i \in DOMAIN df : KeyD(df[i].Method, df[i].MatrixSize, 1) = {}

\* matmul_results.csv is regular but for its baselines: no (Method, MatrixSize,
\* Threads) key is repeated and every method has a record of the largest size at the
\* maximum thread count
RegularButBaselineD ==
    /\ \A i \in DOMAIN df :
          Cardinality(KeyD(df[i].Method, df[i].MatrixSize, df[i].Threads)) = 1
    /\ \A i \in DOMAIN df :
          ReportRows(df, df[i].Method, MaxThreads(df)) # <<>>

\* C11: a run whose input has a (method/pattern, size) pair without a threads == 1
\* record does not abort.
C11_MissingBaselineNotFatal ==
    /\ (script \in ScriptsA /\ NoBaselineA) => pc # "crash"
    /\ (script = "d/plot_results.py" /\ NoBaselineD /\ RegularButBaselineD) =>
          pc # "crash"

\* ------------------------------------------------------------- C12
\* a step of the run has failed
RunFailed == pc \in {"exit1", "crash"}

\* C12: when a step of a run fails, no output file has been written and none is left
\* partially written.
C12_NoOutputOnFailure == RunFailed => files = {}

\* ------------------------------------------------------------- C13
\* the numbers generate_report.py hands to the page: the points of its series and
\* its best times
ReportedTimes ==
    UNION {{ds.data[i][1] : i \in {k \in DOMAIN ds.data : ds.data[k] # None}} :
             ds \in Range(single_thread_datasets)}
        \cup Range(best_time_values)

\* C13: a record whose elapsed time is <= 0 is rejected at load, so every series
\* point and every best time of the report is positive.
C13_NonPositiveRejected ==
    /\ (script \in ScriptsA /\ pc \notin {"read", "exit1"}) =>
          \A i \in DOMAIN data : data[i].sec > 0
    /\ ReportAssembled => \A v \in ReportedTimes : v > 0

\* ------------------------------------------------------------- C14
\* C14: a run over a header-only input fails with an error: it writes no file and
\* never ends reporting success.
C14_EmptyInputFatal ==
    /\ (script \in ScriptsA /\ data = <<>>) => (pc # "done" /\ files = {})
    /\ (script = "b/plot_best_time.py" /\ InputB = <<>>) =>
          (pc \notin {"save", "done"} /\ files = {})

\* ------------------------------------------------------------- C15
\* strings in ascending lexicographic order, numbers in strictly ascending order
AscendingStrs(labels) ==
    \A i, j \in DOMAIN labels : i < j => StrLess(labels[i], labels[j])
StrictlyAscending(axis) ==
    \A i, j \in DOMAIN axis : i < j => axis[i] < axis[j]

LabelsOf(datasets) == [k \in DOMAIN datasets |-> datasets[k].label]

\* C15: in every assembled output the series labels are in ascending lexicographic
\* order and the axis values in strictly ascending order, whatever the input order:
\* the datasets, charts and best-time labels of the report page and the lines of the
\* time-vs-size plot.
C15_DeterministicRenderingOrder ==
    /\ ReportAssembled =>
          /\ StrictlyAscending(all_ns)
          /\ AscendingStrs(LabelsOf(single_thread_datasets))
          /\ \A c \in DOMAIN multi_thread_charts :
                AscendingStrs(LabelsOf(multi_thread_charts[c].datasets))
          /\ AscendingStrs(best_time_labels)
    /\ TimeComparisonDrawn =>
          /\ AscendingStrs(LabelsOf(best_times))
          /\ \A k \in DOMAIN best_times :
                StrictlyAscending(best_times[k].best_times.index)

\* ------------------------------------------------------------- C16
\* C16: the rows of the best-time summary are in ascending order of N, and rows of
\* the same N are in ascending order of their best time.
C16_SortedBySizeThenTime ==
    SummaryBuilt =>
        \A i, j \in DOMAIN best_times :
            i < j =>
                \/ best_times[i].N < best_times[j].N
                \/ /\ best_times[i].N = best_times[j].N
                   /\ best_times[i].best_time_sec <= best_times[j].best_time_sec

\* a saved summary where two rows of one N stand against the order of their names
C16_Witness ==
    /\ script = "b/plot_best_time.py" /\ pc = "done"
    /\ \E i, j \in DOMAIN best_times :
          /\ i < j
          /\ best_times[i].N = best_times[j].N
          /\ best_times[i].best_time_sec < best_times[j].best_time_sec
          /\ StrLess(best_times[j].pattern_name, best_times[i].pattern_name)

\* C16 as stated: the rows of the best-time summary are in ascending order of their
\* group key (N, pattern_name), the best time ordering only rows of an equal key.
C16_SortedByGroupKey ==
    SummaryBuilt =>
        \A i, j \in DOMAIN best_times :
            i < j =>
                \/ best_times[i].N < best_times[j].N
                \/ /\ best_times[i].N = best_times[j].N
                   /\ \/ StrLess(best_times[i].pattern_name, best_times[j].pattern_name)
                      \/ /\ best_times[i].pattern_name = best_times[j].pattern_name
                         /\ best_times[i].best_time_sec <= best_times[j].best_time_sec

\* ------------------------------------------------------------- C17
\* plot_time_comparison has computed its bar arrays (it may have failed drawing them)
BarArraysBuilt == TimeComparisonDrawn \/ (script = "d/plot_results.py" /\ pc = "crash")

\* the array has one value per method and the value at index i is the time of a
\* record of the i-th method at the largest size and t threads
AlignedWithMethods(array, frame, t) ==
    /\ Len(array) = Len(MethodsOf(frame))
    /\ \A i \in DOMAIN array :
          \E r \in Range(ReportRows(frame, MethodsOf(frame)[i], t)) :
              r.TimeSeconds = array[i]

\* C17: for the largest matrix size the single-thread array and the max-thread array
\* of plot_time_comparison and of plot_summary_dashboard have one value per distinct
\* method, the value at index i being that of the i-th method, for any input.
C17_BarArraysAligned ==
    BarArraysBuilt =>
        /\ AlignedWithMethods(single_thread, df, <<1>>)
        /\ AlignedWithMethods(multi_thread, df, MaxThreads(OfSize(df, LargestSize(df))))
        /\ AlignedWithMethods(DashboardSingle(df), df, <<1>>)
        /\ AlignedWithMethods(DashboardMulti(df), df, MaxThreads(df))

\* ------------------------------------------------------------- C18
\* the rows of the summary for the size n and the pattern code c
SummaryRowsOf(n, c) ==
    {k \in DOMAIN best_times :
        best_times[k].N = n /\ best_times[k].pattern_name = MapName(c)}

\* C18: no record is lost in the best-time extraction: every (N, pattern code) of an
\* input record whose N is one of 256, 512, 1024, 2048 has exactly one row in the
\* best-time summary, a code without a mapped name included.
C18_NoRecordLost ==
    SummaryBuilt =>
        \A i \in DOMAIN InputB :
            InputB[i].N \in Ns =>
                Cardinality(SummaryRowsOf(InputB[i].N, InputB[i].pattern)) = 1

====
